---- MODULE Spec2Model ----
(***************************************************************************)
(* system-monitor-tui: the headless reporter (main + printSystemInfo) and  *)
(* the Bubble Tea dashboard (model.Init / model.Update), as state machines.*)
(* The repository builds two programs, each with its own main(); a run is  *)
(* a run of one of them, chosen by prog.                                   *)
(***************************************************************************)
EXTENDS Integers, Sequences, FiniteSets, TLC

VARIABLES
    prog,             \* which program runs: "headless" or "tui"
    \* ---- headless program (src/main.go 59-108)
    mainPc,           \* main goroutine: "select", "send", "wait", "done"
    printerPc,        \* printing goroutine: "recv","cpu","mem","proc","print","exited"
    tickerC,          \* ticks buffered in ticker.C
    stopChan,         \* signals buffered in stopChan
    closed,           \* printChan has been closed
    wg,               \* wait-group counter
    cpuUsage,         \* printSystemInfo's locals
    memoryUsage,
    runningProcesses,
    printed,          \* the last three lines written by printSystemInfo
    closedMidPass,    \* history: close(printChan) happened while a pass was running
    \* ---- dashboard (src/unnamed/part_000)
    tuiPc,            \* Bubble Tea program: "start", "running", "quitting", "done"
    m,                \* the model value held by the event loop
    timers,           \* deadlines of the armed tea.Every timers
    tickMsgs,         \* TickMsg values fired and not yet handed to Update
    now,              \* the clock
    screen,           \* what the renderer last drew: None, or Some(View(m))
    \* ---- the provider, as seen by the pass in progress / the last pass
    calls,            \* the provider reads made by the pass, in order
    failed,           \* the families whose read failed in the pass
    lastGood,         \* per family, the value of its most recent successful read
    rawProcs,         \* the raw process list of the most recent successful read
    priorTable        \* the provider's prior-sample table: pid -> last observation

vars == <<prog, mainPc, printerPc, tickerC, stopChan, closed, wg, cpuUsage,
          memoryUsage, runningProcesses, printed, closedMidPass,
          tuiPc, m, timers, tickMsgs, now, screen,
          calls, failed, lastGood, rawProcs, priorTable>>

headlessVars == <<mainPc, printerPc, tickerC, stopChan, closed, wg, cpuUsage,
                  memoryUsage, runningProcesses, printed, closedMidPass>>

tuiVars == <<tuiPc, m, timers, tickMsgs, now, screen>>

passVars == <<calls, failed, lastGood, rawProcs, priorTable>>

----------------------------------------------------------------------------
(* Bounds of the model *)

\* the clock runs from 1 to MaxTime
MaxTime == 5

\* a sampling pass of the dashboard takes 0..MaxPassTime clock units
MaxPassTime == 1

(* Program constants *)

\* capacity of ticker.C (time.NewTicker)
TickerCap == 1

\* capacity of stopChan
StopChanCap == 1

\* time.Second, in clock units
TickInterval == 2

\* the zero time.Time of a freshly built model
ZeroTime == 0

\* GetProcesses(5) in Update, GetProcesses(10) in printSystemInfo
TuiTopN == 5

HeadlessTopN == 10

\* totalBars in progressBar
TotalBars == 20

----------------------------------------------------------------------------
(* Values *)

Min(a, b) == IF a < b THEN a ELSE b

Max(a, b) == IF a > b THEN a ELSE b

\* an optional value: None, or Some(v)
None == << >>

Some(v) == <<v>>

Families == {"cpu", "mem", "proc"}

\* cpu.TimesStat (the Idle field stands for the record) and its zero value
CpuVals == {[Idle |-> 70], [Idle |-> 40]}

ZeroCpu == [Idle |-> 0]

\* mem.VirtualMemoryStat and its zero value
MemVals == {[UsedPercent |-> 50], [UsedPercent |-> 25]}

ZeroMem == [UsedPercent |-> 0]

\* ProcessUsage records
Proc(pid, name, cpu) == [PID |-> pid, Name |-> name, CPUPercent |-> cpu]

\* the raw process lists the host can have, in enumeration order: a short
\* one, and one longer than both top-N requests, with equal percentages
ProcLists ==
    { << Proc(7, "init", 30), Proc(9, "go", 60) >>,
      << Proc(11, "k", 10), Proc(3, "c", 50), Proc(5, "e", 50), Proc(1, "a", 20),
         Proc(2, "b", 90), Proc(4, "d", 20), Proc(6, "f", 0), Proc(8, "h", 50),
         Proc(10, "j", 70), Proc(12, "l", 5), Proc(13, "n", 20) >> }

Take(s, n) == SubSeq(s, 1, Min(n, Len(s)))

Remove(s, i) == [j \in 1..(Len(s) - 1) |-> IF j < i THEN s[j] ELSE s[j + 1]]

Range(s) == {s[i] : i \in 1..Len(s)}

Pids(s) == {s[i].PID : i \in 1..Len(s)}

\* the Ranker's order: higher cpuPercent first, equal ones by ascending pid
Before(p, q) ==
    \/ p.CPUPercent > q.CPUPercent
    \/ p.CPUPercent = q.CPUPercent /\ p.PID < q.PID

RECURSIVE SortProcs(_)
SortProcs(s) ==
    IF s = << >> THEN << >>
    ELSE LET i == CHOOSE k \in 1..Len(s) :
                     \A j \in 1..Len(s) : j # k => Before(s[k], s[j])
         IN  <<s[i]>> \o SortProcs(Remove(s, i))

\* Rank(usages, N): the first N entries of the sorted list
Rank(usages, n) == Take(SortProcs(usages), n)

\* (value, error) pairs returned by the three provider reads
GetCPUStats == {[val |-> v, err |-> FALSE] : v \in CpuVals}
                 \cup {[val |-> ZeroCpu, err |-> TRUE]}

GetMEMStats == {[val |-> v, err |-> FALSE] : v \in MemVals}
                 \cup {[val |-> ZeroMem, err |-> TRUE]}

\* raw is the list the read enumerated, val its top n
GetProcesses(n) ==
    {[val |-> Rank(l, n), err |-> FALSE, raw |-> l] : l \in ProcLists}
      \cup {[val |-> << >>, err |-> TRUE, raw |-> << >>]}

\* the answers GetProcesses(10) can give to printSystemInfo
HeadlessProcesses == GetProcesses(HeadlessTopN)

\* a table that keeps the entries of pids missing from the current list
MergeTable(table, raw) ==
    [p \in DOMAIN table \cup Pids(raw) |->
        IF p \in Pids(raw) THEN CHOOSE r \in Range(raw) : r.PID = p
                           ELSE table[p]]

\* the Delta Engine replaces the prior-sample table by the observations of
\* the current raw list
ReplaceTable(table, raw) ==
    [p \in Pids(raw) |-> CHOOSE r \in Range(raw) : r.PID = p]

\* the provider's state after a process read with result r
RawAfter(r) == IF r.err THEN rawProcs ELSE r.raw

TableAfter(r) == IF r.err THEN priorTable ELSE ReplaceTable(priorTable, r.raw)

\* the provider's bookkeeping for one read of family f with result r
Fail(f, r) == IF r.err THEN failed \cup {f} ELSE failed

Good(f, r) == IF r.err THEN lastGood ELSE [lastGood EXCEPT ![f] = Some(r.val)]

NoOutput == [cpu |-> None, mem |-> None, proc |-> None]

Busy == {"cpu", "mem", "proc", "print"}

----------------------------------------------------------------------------
(* The headless program *)

\* a ticker whose channel queues every tick instead of dropping it
TickerSendQueued(c) == c + 1

\* non-blocking send on a buffered channel: dropped when the buffer is full
TickerSend(c) == IF c < TickerCap THEN c + 1 ELSE c

NotifySend(c) == IF c < StopChanCap THEN c + 1 ELSE c

\* the runtime ticker delivers a tick into ticker.C until ticker.Stop()
TickerFire ==
    /\ prog = "headless"
    /\ mainPc # "done"
    /\ tickerC' = TickerSend(tickerC)
    /\ UNCHANGED <<prog, mainPc, printerPc, stopChan, closed, wg, cpuUsage,
                   memoryUsage, runningProcesses, printed, closedMidPass>>
    /\ UNCHANGED <<tuiVars, passVars>>

\* SIGINT / SIGTERM arrives: signal.Notify relays it into stopChan
Signal ==
    /\ prog = "headless"
    /\ mainPc # "done"
    /\ stopChan' = NotifySend(stopChan)
    /\ UNCHANGED <<prog, mainPc, printerPc, tickerC, closed, wg, cpuUsage,
                   memoryUsage, runningProcesses, printed, closedMidPass>>
    /\ UNCHANGED <<tuiVars, passVars>>

\* select: case <-ticker.C
SelectTick ==
    /\ prog = "headless"
    /\ mainPc = "select"
    /\ tickerC > 0
    /\ tickerC' = tickerC - 1
    /\ mainPc' = "send"
    /\ UNCHANGED <<prog, printerPc, stopChan, closed, wg, cpuUsage,
                   memoryUsage, runningProcesses, printed, closedMidPass>>
    /\ UNCHANGED <<tuiVars, passVars>>

\* printChan <- struct{}{} meets the receive of `for range printChan`
SendTick ==
    /\ prog = "headless"
    /\ mainPc = "send"
    /\ printerPc = "recv"
    /\ mainPc' = "select"
    /\ printerPc' = "cpu"
    /\ calls' = << >>
    /\ failed' = {}
    /\ UNCHANGED <<prog, tickerC, stopChan, closed, wg, cpuUsage, memoryUsage,
                   runningProcesses, printed, closedMidPass, lastGood,
                   rawProcs, priorTable>>
    /\ UNCHANGED tuiVars

\* the stop branch without close(printChan)
SelectStopNoClose ==
    /\ prog = "headless"
    /\ mainPc = "select"
    /\ stopChan > 0
    /\ stopChan' = stopChan - 1
    /\ mainPc' = "wait"
    /\ UNCHANGED <<prog, printerPc, tickerC, closed, wg, cpuUsage, memoryUsage,
                   runningProcesses, printed, closedMidPass>>
    /\ UNCHANGED <<tuiVars, passVars>>

\* select: case <-stopChan, up to close(printChan)
SelectStop ==
    /\ prog = "headless"
    /\ mainPc = "select"
    /\ stopChan > 0
    /\ stopChan' = stopChan - 1
    /\ closed' = TRUE
    /\ closedMidPass' = (printerPc \in Busy)
    /\ mainPc' = "wait"
    /\ UNCHANGED <<prog, printerPc, tickerC, wg, cpuUsage, memoryUsage,
                   runningProcesses, printed>>
    /\ UNCHANGED <<tuiVars, passVars>>

\* main returning without waiting for the wait group
WgWaitNoWait ==
    /\ prog = "headless"
    /\ mainPc = "wait"
    /\ mainPc' = "done"
    /\ UNCHANGED <<prog, printerPc, tickerC, stopChan, closed, wg, cpuUsage,
                   memoryUsage, runningProcesses, printed, closedMidPass>>
    /\ UNCHANGED <<tuiVars, passVars>>

\* wg.Wait() returns, main returns (the deferred ticker.Stop runs)
WgWait ==
    /\ prog = "headless"
    /\ mainPc = "wait"
    /\ wg = 0
    /\ mainPc' = "done"
    /\ UNCHANGED <<prog, printerPc, tickerC, stopChan, closed, wg, cpuUsage,
                   memoryUsage, runningProcesses, printed, closedMidPass>>
    /\ UNCHANGED <<tuiVars, passVars>>

\* a printer goroutine that exits without wg.Done()
PrinterExitNoDone ==
    /\ prog = "headless"
    /\ printerPc = "recv"
    /\ closed
    /\ printerPc' = "exited"
    /\ UNCHANGED <<prog, mainPc, tickerC, stopChan, closed, wg, cpuUsage,
                   memoryUsage, runningProcesses, printed, closedMidPass>>
    /\ UNCHANGED <<tuiVars, passVars>>

\* `for range printChan` sees the channel closed; the deferred wg.Done() runs
PrinterExit ==
    /\ prog = "headless"
    /\ printerPc = "recv"
    /\ closed
    /\ printerPc' = "exited"
    /\ wg' = wg - 1
    /\ UNCHANGED <<prog, mainPc, tickerC, stopChan, closed, cpuUsage,
                   memoryUsage, runningProcesses, printed, closedMidPass>>
    /\ UNCHANGED <<tuiVars, passVars>>

\* a printer that writes the CPU line as soon as it has read it
ReadCPUPrint ==
    /\ prog = "headless"
    /\ printerPc = "cpu"
    /\ \E r \in GetCPUStats :
          /\ cpuUsage' = r.val
          /\ printed' = [printed EXCEPT !.cpu = Some(r.val)]
          /\ failed' = Fail("cpu", r)
          /\ lastGood' = Good("cpu", r)
    /\ calls' = Append(calls, "cpu")
    /\ printerPc' = "mem"
    /\ UNCHANGED <<prog, mainPc, tickerC, stopChan, closed, wg, memoryUsage,
                   runningProcesses, closedMidPass, rawProcs, priorTable>>
    /\ UNCHANGED tuiVars

\* cpuUsage, _ := GetCPUStats()
ReadCPU ==
    /\ prog = "headless"
    /\ printerPc = "cpu"
    /\ \E r \in GetCPUStats :
          /\ cpuUsage' = r.val
          /\ failed' = Fail("cpu", r)
          /\ lastGood' = Good("cpu", r)
    /\ calls' = Append(calls, "cpu")
    /\ printerPc' = "mem"
    /\ UNCHANGED <<prog, mainPc, tickerC, stopChan, closed, wg, memoryUsage,
                   runningProcesses, printed, closedMidPass, rawProcs, priorTable>>
    /\ UNCHANGED tuiVars

\* memoryUsage, _ := GetMEMStats()
ReadMEM ==
    /\ prog = "headless"
    /\ printerPc = "mem"
    /\ \E r \in GetMEMStats :
          /\ memoryUsage' = r.val
          /\ failed' = Fail("mem", r)
          /\ lastGood' = Good("mem", r)
    /\ calls' = Append(calls, "mem")
    /\ printerPc' = "proc"
    /\ UNCHANGED <<prog, mainPc, tickerC, stopChan, closed, wg, cpuUsage,
                   runningProcesses, printed, closedMidPass, rawProcs, priorTable>>
    /\ UNCHANGED tuiVars

\* runningProcesses, _ := GetProcesses(10)
ReadProcs ==
    /\ prog = "headless"
    /\ printerPc = "proc"
    /\ \E r \in HeadlessProcesses :
          /\ runningProcesses' = r.val
          /\ failed' = Fail("proc", r)
          /\ lastGood' = Good("proc", r)
          /\ rawProcs' = RawAfter(r)
          /\ priorTable' = TableAfter(r)
    /\ calls' = Append(calls, "proc")
    /\ printerPc' = "print"
    /\ UNCHANGED <<prog, mainPc, tickerC, stopChan, closed, wg, cpuUsage,
                   memoryUsage, printed, closedMidPass>>
    /\ UNCHANGED tuiVars

\* the three fmt.Println calls; the locals go out of scope with the iteration
PrintInfo ==
    /\ prog = "headless"
    /\ printerPc = "print"
    /\ printed' = [cpu |-> Some(cpuUsage), mem |-> Some(memoryUsage),
                   proc |-> Some(runningProcesses)]
    /\ cpuUsage' = ZeroCpu
    /\ memoryUsage' = ZeroMem
    /\ runningProcesses' = << >>
    /\ printerPc' = "recv"
    /\ UNCHANGED <<prog, mainPc, tickerC, stopChan, closed, wg, closedMidPass>>
    /\ UNCHANGED <<tuiVars, passVars>>

----------------------------------------------------------------------------
(* The dashboard *)

Keys == {"esc", "up", "k", "down", "j", "q", "ctrl+c", "x"}

Widths == {80, 120}

Heights == {24}

\* table.Row built from one ProcessUsage: the cells in column order
Row(p) == <<p.PID, p.Name, p.CPUPercent>>

\* rows built by prepending each new row instead of appending it
RowsPrepended(procs) == [i \in 1..Len(procs) |-> Row(procs[Len(procs) + 1 - i])]

Rows(procs) == [i \in 1..Len(procs) |-> Row(procs[i])]

\* processTable.SetRows: the rows are replaced, the cursor stays inside them
SetRows(mm, rows) ==
    [mm EXCEPT !.rows = rows,
               !.cursor = Min(mm.cursor, Max(Len(rows) - 1, 0))]

\* processTable.MoveUp(1) / MoveDown(1)
MoveUp(mm) == [mm EXCEPT !.cursor = Max(mm.cursor - 1, 0)]

MoveDown(mm) ==
    [mm EXCEPT !.cursor = Min(mm.cursor + 1, Max(Len(mm.rows) - 1, 0))]

\* int(x) of a quotient a/b: truncation toward zero
Trunc(a, b) == IF a >= 0 THEN a \div b ELSE -((-a) \div b)

\* a bar that multiplies by totalBars without dividing by 100
progressBarNoScale(percentage) ==
    LET totalBars == TotalBars
        fillBars == percentage * totalBars
    IN  [filled |-> fillBars, empty |-> totalBars - fillBars]

\* progressBar: the two counts handed to strings.Repeat
progressBar(percentage) ==
    LET totalBars == TotalBars
        fillBars == Trunc(percentage * totalBars, 100)
    IN  [filled |-> fillBars, empty |-> totalBars - fillBars]

\* a header that shows the idle share as the usage
viewHeaderIdle(mm) ==
    [cpuBar |-> progressBar(mm.CpuUsage.Idle),
     cpuLabel |-> mm.CpuUsage.Idle,
     memBar |-> progressBar(mm.MemUsage.UsedPercent),
     memLabel |-> mm.MemUsage.UsedPercent,
     idle |-> mm.CpuUsage.Idle]

\* viewHeader: the usage bars and labels and the CPU and memory figures (the
\* "Last update" line, which reads time.Now() while rendering, is left out)
viewHeader(mm) ==
    [cpuBar |-> progressBar(100 - mm.CpuUsage.Idle),
     cpuLabel |-> 100 - mm.CpuUsage.Idle,
     memBar |-> progressBar(mm.MemUsage.UsedPercent),
     memLabel |-> mm.MemUsage.UsedPercent,
     idle |-> mm.CpuUsage.Idle]

\* viewProcess: the process table as drawn
viewProcess(mm) ==
    [rows |-> mm.rows, cursor |-> mm.cursor, selected |-> mm.selected]

\* func (m model) View() string
View(mm) == [header |-> viewHeader(mm), process |-> viewProcess(mm)]

\* a timer armed for the current interval boundary instead of the next one
tickEveryNow(t) == (t \div TickInterval) * TickInterval

\* tea.Every(time.Second, ...) started at time t: a one-shot timer for the
\* next whole multiple of the interval after t
tickEvery(t) == ((t \div TickInterval) + 1) * TickInterval

\* a resize branch that also returns tickEvery()
UpdateWindowSizeTick(mm, msg) ==
    [model |-> [mm EXCEPT !.height = msg.Height, !.width = msg.Width],
     cmd |-> "tick", calls |-> << >>]

\* Update, case tea.WindowSizeMsg
UpdateWindowSize(mm, msg) ==
    [model |-> [mm EXCEPT !.height = msg.Height, !.width = msg.Width],
     cmd |-> "nil", calls |-> << >>]

\* a key branch whose quit keys also blur the table
UpdateKeyBlur(mm, msg) ==
    CASE msg.key = "esc" ->
           [model |-> IF mm.focused
                        THEN [mm EXCEPT !.selected = "base", !.focused = FALSE]
                        ELSE [mm EXCEPT !.selected = "highlight", !.focused = TRUE],
            cmd |-> "nil", calls |-> << >>]
      [] msg.key \in {"up", "k"} ->
           [model |-> IF mm.focused THEN MoveUp(mm) ELSE mm,
            cmd |-> "nil", calls |-> << >>]
      [] msg.key \in {"down", "j"} ->
           [model |-> IF mm.focused THEN MoveDown(mm) ELSE mm,
            cmd |-> "nil", calls |-> << >>]
      [] msg.key \in {"q", "ctrl+c"} ->
           [model |-> [mm EXCEPT !.selected = "base", !.focused = FALSE],
            cmd |-> "quit", calls |-> << >>]
      [] OTHER ->
           [model |-> mm, cmd |-> "nil", calls |-> << >>]

\* Update, case tea.KeyMsg
UpdateKey(mm, msg) ==
    CASE msg.key = "esc" ->
           [model |-> IF mm.focused
                        THEN [mm EXCEPT !.selected = "base", !.focused = FALSE]
                        ELSE [mm EXCEPT !.selected = "highlight", !.focused = TRUE],
            cmd |-> "nil", calls |-> << >>]
      [] msg.key \in {"up", "k"} ->
           [model |-> IF mm.focused THEN MoveUp(mm) ELSE mm,
            cmd |-> "nil", calls |-> << >>]
      [] msg.key \in {"down", "j"} ->
           [model |-> IF mm.focused THEN MoveDown(mm) ELSE mm,
            cmd |-> "nil", calls |-> << >>]
      [] msg.key \in {"q", "ctrl+c"} ->
           [model |-> mm, cmd |-> "quit", calls |-> << >>]
      [] OTHER ->
           [model |-> mm, cmd |-> "nil", calls |-> << >>]

\* a TickMsg branch that returns at the first failed read
UpdateTickAbort(mm, msg, env) ==
    LET m1 == [mm EXCEPT !.lastUpdate = msg.t]
        m2 == [m1 EXCEPT !.CpuUsage = env.cpu.val]
        m3 == [m2 EXCEPT !.MemUsage = env.mem.val]
        m4 == SetRows(m3, Rows(env.proc.val))
    IN  IF env.cpu.err
          THEN [model |-> m1, cmd |-> "nil", calls |-> <<"cpu">>]
          ELSE IF env.mem.err
            THEN [model |-> m2, cmd |-> "nil", calls |-> <<"cpu", "mem">>]
            ELSE IF env.proc.err
              THEN [model |-> m3, cmd |-> "nil", calls |-> <<"cpu", "mem", "proc">>]
              ELSE [model |-> m4, cmd |-> "tick", calls |-> <<"cpu", "mem", "proc">>]

\* Update, case TickMsg; env holds what the three provider reads return
UpdateTick(mm, msg, env) ==
    LET m1 == [mm EXCEPT !.lastUpdate = msg.t]
        m2 == IF env.cpu.err THEN m1 ELSE [m1 EXCEPT !.CpuUsage = env.cpu.val]
        m3 == IF env.mem.err THEN m2 ELSE [m2 EXCEPT !.MemUsage = env.mem.val]
        m4 == IF env.proc.err THEN m3 ELSE SetRows(m3, Rows(env.proc.val))
    IN  [model |-> m4, cmd |-> "tick", calls |-> <<"cpu", "mem", "proc">>]

\* func (m model) Update(msg tea.Msg) (tea.Model, tea.Cmd)
Update(mm, msg, env) ==
    CASE msg.type = "WindowSize" -> UpdateWindowSize(mm, msg)
      [] msg.type = "Key" -> UpdateKey(mm, msg)
      [] msg.type = "Tick" -> UpdateTick(mm, msg, env)
      [] OTHER -> [model |-> mm, cmd |-> "nil", calls |-> << >>]

Envs == [cpu : GetCPUStats, mem : GetMEMStats, proc : GetProcesses(TuiTopN)]

\* only the TickMsg branch reads the provider: the other messages are
\* delivered with one fixed answer of the provider, which Update never looks at
IdleEnv == CHOOSE env \in Envs : TRUE

\* the event loop hands msg to Update, keeps the returned model and runs the
\* returned command; the call takes d clock units
Deliver(msg, env, d) ==
    LET r == Update(m, msg, env)
        made == Range(r.calls)
    IN  /\ now + d <= MaxTime
        /\ now' = now + d
        /\ m' = r.model
        /\ screen' = Some(View(r.model))
        /\ timers' = IF r.cmd = "tick"
                       THEN Append(timers, tickEvery(now + d))
                       ELSE timers
        /\ tuiPc' = IF r.cmd = "quit" THEN "quitting" ELSE tuiPc
        /\ calls' = IF msg.type = "Tick" THEN r.calls ELSE calls \o r.calls
        /\ failed' = IF msg.type = "Tick"
                       THEN {f \in made : env[f].err}
                       ELSE failed \cup {f \in made : env[f].err}
        /\ lastGood' = [f \in Families |->
                          IF f \in made /\ ~env[f].err THEN Some(env[f].val)
                                                       ELSE lastGood[f]]
        /\ rawProcs' = IF "proc" \in made THEN RawAfter(env.proc) ELSE rawProcs
        /\ priorTable' = IF "proc" \in made THEN TableAfter(env.proc)
                                             ELSE priorTable

Alive == prog = "tui" /\ tuiPc \in {"running", "quitting"}

\* p.Run(): the program starts and runs the command returned by m.Init()
TuiRun ==
    /\ prog = "tui"
    /\ tuiPc = "start"
    /\ tuiPc' = "running"
    /\ timers' = Append(timers, tickEvery(now))
    /\ screen' = Some(View(m))
    /\ UNCHANGED <<prog, m, tickMsgs, now>>
    /\ UNCHANGED <<headlessVars, passVars>>

ClockTick ==
    /\ Alive
    /\ now < MaxTime
    /\ now' = now + 1
    /\ UNCHANGED <<prog, tuiPc, m, timers, tickMsgs, screen>>
    /\ UNCHANGED <<headlessVars, passVars>>

\* an armed timer expires: its callback produces TickMsg(t), t the time of firing
TimerFire ==
    /\ Alive
    /\ \E i \in 1..Len(timers) :
          /\ timers[i] <= now
          /\ timers' = Remove(timers, i)
          /\ tickMsgs' = Append(tickMsgs, now)
    /\ UNCHANGED <<prog, tuiPc, m, now, screen>>
    /\ UNCHANGED <<headlessVars, passVars>>

TuiTick ==
    /\ Alive
    /\ \E i \in 1..Len(tickMsgs), env \in Envs, d \in 0..MaxPassTime :
          /\ tickMsgs' = Remove(tickMsgs, i)
          /\ Deliver([type |-> "Tick", t |-> tickMsgs[i]], env, d)
    /\ UNCHANGED prog
    /\ UNCHANGED headlessVars

TuiKey ==
    /\ Alive
    /\ \E k \in Keys : Deliver([type |-> "Key", key |-> k], IdleEnv, 0)
    /\ UNCHANGED <<prog, tickMsgs>>
    /\ UNCHANGED headlessVars

TuiWindowSize ==
    /\ Alive
    /\ \E w \in Widths, h \in Heights :
          Deliver([type |-> "WindowSize", Width |-> w, Height |-> h], IdleEnv, 0)
    /\ UNCHANGED <<prog, tickMsgs>>
    /\ UNCHANGED headlessVars

\* any other message type (mouse, focus, ...)
TuiOtherMsg ==
    /\ Alive
    /\ Deliver([type |-> "Other"], IdleEnv, 0)
    /\ UNCHANGED <<prog, tickMsgs>>
    /\ UNCHANGED headlessVars

\* the QuitMsg produced by tea.Quit reaches the event loop: p.Run() returns
TuiQuitMsg ==
    /\ prog = "tui"
    /\ tuiPc = "quitting"
    /\ tuiPc' = "done"
    /\ UNCHANGED <<prog, m, timers, tickMsgs, now, screen>>
    /\ UNCHANGED <<headlessVars, passVars>>

----------------------------------------------------------------------------
Init ==
    /\ prog \in {"headless", "tui"}
    /\ mainPc = "select"
    /\ printerPc = "recv"
    /\ tickerC = 0
    /\ stopChan = 0
    /\ closed = FALSE
    /\ wg = 1
    /\ cpuUsage = ZeroCpu
    /\ memoryUsage = ZeroMem
    /\ runningProcesses = << >>
    /\ printed = NoOutput
    /\ closedMidPass = FALSE
    /\ tuiPc = "start"
    /\ m = [width |-> 0, height |-> 0, lastUpdate |-> ZeroTime,
            rows |-> << >>, cursor |-> 0, focused |-> TRUE,
            selected |-> "highlight",
            CpuUsage |-> ZeroCpu, MemUsage |-> ZeroMem]
    /\ timers = << >>
    /\ tickMsgs = << >>
    /\ now = 1
    /\ screen = None
    /\ calls = << >>
    /\ failed = {}
    /\ lastGood = [f \in Families |-> None]
    /\ rawProcs = << >>
    /\ priorTable = << >>

Next ==
    \/ TickerFire
    \/ Signal
    \/ SelectTick
    \/ SendTick
    \/ SelectStop
    \/ WgWait
    \/ PrinterExit
    \/ ReadCPU
    \/ ReadMEM
    \/ ReadProcs
    \/ PrintInfo
    \/ TuiRun
    \/ ClockTick
    \/ TimerFire
    \/ TuiTick
    \/ TuiKey
    \/ TuiWindowSize
    \/ TuiOtherMsg
    \/ TuiQuitMsg

Spec == Init /\ [][Next]_vars

\* every provider read eventually returns, the goroutines are scheduled
\* fairly, and a select with several ready cases picks each of them again
\* and again (Go picks uniformly at random among the ready cases)
FairSpec ==
    /\ Spec
    /\ WF_vars(SendTick)
    /\ WF_vars(ReadCPU)
    /\ WF_vars(ReadMEM)
    /\ WF_vars(ReadProcs)
    /\ WF_vars(PrintInfo)
    /\ WF_vars(PrinterExit)
    /\ WF_vars(WgWait)
    /\ SF_vars(SelectStop)

----------------------------------------------------------------------------
(* Properties *)

FullPass == <<"cpu", "mem", "proc">>

\* ticks waiting to be served by the headless program / by the dashboard
TicksWaiting == tickerC + (IF mainPc = "send" THEN 1 ELSE 0)

TicksOutstanding == Len(timers) + Len(tickMsgs)

PassesRunning == IF printerPc \in Busy THEN 1 ELSE 0

\* the headless printer has written the lines of a pass and is between passes
Printed == prog = "headless" /\ printerPc \in {"recv", "exited"} /\ printed # NoOutput

\* the dashboard has handled at least one TickMsg
Sampled == prog = "tui" /\ m.lastUpdate # ZeroTime

\* what the dashboard shows for a family, and what it shows for a value v of it
Shown(f) == CASE f = "cpu" -> m.CpuUsage
              [] f = "mem" -> m.MemUsage
              [] f = "proc" -> m.rows

ShownAs(f, v) == IF f = "proc" THEN Rows(v[1]) ELSE v[1]

ZeroOf(f) == CASE f = "cpu" -> ZeroCpu
               [] f = "mem" -> ZeroMem
               [] f = "proc" -> << >>

\* shutdown has been requested: a signal waits in stopChan, or Update has
\* returned tea.Quit
ShutdownRequested ==
    \/ prog = "headless" /\ stopChan > 0
    \/ prog = "tui" /\ tuiPc \in {"quitting", "done"}

\* C1: when the stop signal is handled while a pass is running, main returns
\* only after that pass has made its three reads and printed, and after the
\* printer goroutine has exited (wait-group counter 0); and no pass starts
\* once printChan is closed.
C1_ShutdownQuiescence ==
    /\ [](mainPc = "done" =>
            /\ printerPc = "exited"
            /\ wg = 0
            /\ (closedMidPass => printed # NoOutput /\ calls = FullPass))
    /\ [][closed => ~(printerPc # "cpu" /\ printerPc' = "cpu")]_vars

C1_Witness ==
    /\ mainPc = "done"
    /\ closedMidPass
    /\ printed # NoOutput

\* C2: at most one pass runs at a time and the ticks waiting to be served are
\* bounded: at most one in ticker.C plus the one main is handing over in the
\* headless program, at most one armed or undelivered tick in the dashboard.
C2_NoOverlapBoundedTicks ==
    /\ PassesRunning <= 1
    /\ TicksWaiting <= TickerCap + 1
    /\ TicksOutstanding <= 1

C2_Witness ==
    /\ prog = "headless"
    /\ printerPc \in Busy
    /\ mainPc = "send"
    /\ tickerC = TickerCap

\* C3: once shutdown has been requested, no new sampling pass is started: no
\* tick is handed over on printChan and Update handles no further TickMsg.
C3_NoPassAfterShutdownRequest ==
    [][ShutdownRequested => ~(SendTick \/ TuiTick)]_vars

\* C4: a signal delivered to the headless program leads to main closing
\* printChan, the printer goroutine exiting and main returning.
C4_ShutdownLiveness ==
    (prog = "headless" /\ stopChan > 0)
        ~> (mainPc = "done" /\ printerPc = "exited" /\ closed)

C4_Witness ==
    /\ mainPc = "done"
    /\ printerPc = "exited"
    /\ wg = 0
    /\ tickerC = TickerCap
    /\ stopChan = StopChanCap

\* C5: every pass makes the three reads once each, in the order CPU, memory,
\* processes, whatever fails; a family that was read successfully is shown
\* with the value read; the dashboard's pass arms the next tick.
C5_FailureNeverAbortsPass ==
    /\ prog = "headless" =>
          /\ printerPc = "mem" => calls = <<"cpu">>
          /\ printerPc = "proc" => calls = <<"cpu", "mem">>
          /\ printerPc = "print" => calls = FullPass
    /\ Printed =>
          /\ calls = FullPass
          /\ \A f \in Families \ failed : printed[f] = lastGood[f]
    /\ Sampled =>
          /\ calls = FullPass
          /\ \A f \in Families \ failed :
                lastGood[f] # None /\ Shown(f) = ShownAs(f, lastGood[f])
          /\ Alive => TicksOutstanding >= 1

C5_Witness ==
    /\ prog = "tui"
    /\ failed = {"cpu"}
    /\ m.CpuUsage = ZeroCpu
    /\ m.MemUsage \in MemVals
    /\ Len(m.rows) > 0
    /\ Len(timers) = 1

\* C6: on a pass where the read of a family fails, both frontends publish for
\* that family the value of its most recent successful read.
C6_LastKnownGood ==
    /\ Printed =>
          \A f \in failed : lastGood[f] # None => printed[f] = lastGood[f]
    /\ Sampled =>
          \A f \in failed : lastGood[f] # None => Shown(f) = ShownAs(f, lastGood[f])

\* C7: the published model tells a family whose read failed on the pass (its
\* value retained) from one whose read succeeded: a pass in which the read of
\* family f fails and a pass in which it succeeds never publish the same model.
C7_StalenessFlag ==
    Alive =>
       \A f \in Families, e1 \in Envs, e2 \in Envs :
          (/\ e1[f].err
           /\ ~e2[f].err
           /\ \A g \in Families \ {f} : e1[g] = e2[g])
          => UpdateTick(m, [type |-> "Tick", t |-> now], e1).model
               # UpdateTick(m, [type |-> "Tick", t |-> now], e2).model

\* C8: main never waits in `printChan <- struct{}{}` while the printer is
\* still busy with the previous pass.
C8_HandOffNeverBlocks ==
    ~(prog = "headless" /\ mainPc = "send" /\ printerPc \in Busy)

\* C9: each TickMsg handled by Update stores a lastUpdate strictly greater
\* than the one stored before it.
C9_TimestampsIncrease ==
    [][TuiTick => m'.lastUpdate > m.lastUpdate]_vars

C9_Witness ==
    /\ prog = "tui"
    /\ failed = {"mem"}
    /\ lastGood["mem"] # None
    /\ m.lastUpdate = MaxTime

\* C10: under one lastUpdate, the CPU and the memory counters shown both come
\* from the pass of that time, or the one that does not is shown empty.
C10_SingleInstant ==
    Sampled =>
       \A f \in {"cpu", "mem"} : f \in failed => Shown(f) = ZeroOf(f)

\* C11: no consumer sees a pass half applied. The screen always shows the
\* model returned by the last completed Update call, with every family read
\* successfully on the last pass applied; the headless printer writes its
\* lines only after the three reads of the pass have returned.
C11_NoPartialSnapshot ==
    /\ []((prog = "tui" /\ tuiPc # "start") => screen = Some(View(m)))
    /\ [](Sampled =>
            \A f \in Families \ failed :
               lastGood[f] # None /\ Shown(f) = ShownAs(f, lastGood[f]))
    /\ [][printed' # printed => printerPc = "print" /\ calls = FullPass]_vars

C11_Witness ==
    /\ prog = "headless"
    /\ printerPc = "proc"
    /\ printed # NoOutput
    /\ printed["cpu"] # Some(cpuUsage)

\* l is in descending cpuPercent order, equal percentages by ascending pid
Descending(l) ==
    \A i \in 1..(Len(l) - 1) :
       \/ l[i].CPUPercent > l[i + 1].CPUPercent
       \/ l[i].CPUPercent = l[i + 1].CPUPercent /\ l[i].PID < l[i + 1].PID

\* l holds the n first processes of raw: it is drawn from raw, has
\* min(n, Len(raw)) entries, and no process left out ranks above one kept
TopOf(l, n, raw) ==
    /\ Len(l) = Min(n, Len(raw))
    /\ Range(l) \subseteq Range(raw)
    /\ \A p \in Range(raw) \ Range(l) : \A q \in Range(l) :
          \/ q.CPUPercent > p.CPUPercent
          \/ q.CPUPercent = p.CPUPercent /\ q.PID < p.PID

\* C12: after a successful process read the published list is the top N of
\* the raw list (N = 5 in the dashboard, 10 in the printer), in descending
\* cpuPercent order with equal percentages by ascending pid, and the table
\* rows are the ranked entries, one row each, in the same order.
C12_TopNRanking ==
    /\ (Sampled /\ "proc" \notin failed) =>
          LET ranked == lastGood["proc"][1]
          IN  /\ TopOf(ranked, TuiTopN, rawProcs)
              /\ Descending(ranked)
              /\ Len(m.rows) = Len(ranked)
              /\ \A i \in 1..Len(ranked) :
                    m.rows[i] = <<ranked[i].PID, ranked[i].Name,
                                  ranked[i].CPUPercent>>
    /\ (Printed /\ "proc" \notin failed) =>
          LET ranked == printed["proc"][1]
          IN  /\ TopOf(ranked, HeadlessTopN, rawProcs)
              /\ Descending(ranked)

C12_Witness ==
    /\ prog = "tui"
    /\ "proc" \notin failed
    /\ Len(rawProcs) > TuiTopN
    /\ Len(m.rows) = TuiTopN
    /\ m.rows[3][3] = m.rows[4][3]
    /\ m.rows[3][1] < m.rows[4][1]

\* C13: after every pass the pids of the prior-sample table are exactly the
\* pids of the raw process list of the most recent process read, so the
\* table has as many entries as that list.
C13_PriorTablePruned ==
    /\ DOMAIN priorTable = Pids(rawProcs)
    /\ Cardinality(DOMAIN priorTable) = Len(rawProcs)

C13_Witness ==
    /\ prog = "headless"
    /\ printerPc = "print"
    /\ "proc" \notin failed
    /\ printed["proc"] # None
    /\ Len(printed["proc"][1]) = HeadlessTopN
    /\ Len(rawProcs) < HeadlessTopN
    /\ Cardinality(DOMAIN priorTable) = Len(rawProcs)

\* C14: the CPU usage in the header is 100 minus the Idle value held in the
\* model, computed from the model alone; the bar is drawn from the same value
\* as the label.
C14_HeaderCpuUsage ==
    (prog = "tui" /\ screen # None) =>
       LET h == screen[1].header
       IN  /\ h.cpuLabel = 100 - m.CpuUsage.Idle
           /\ h.cpuBar = progressBar(h.cpuLabel)

C14_Witness ==
    /\ prog = "tui"
    /\ screen # None
    /\ m.CpuUsage.Idle = 70
    /\ screen[1].header.cpuLabel = 30

\* C15: while the dashboard runs and no quit key has been handled, exactly
\* one tick is outstanding (an armed timer or an undelivered TickMsg).
C15_TickChain ==
    (prog = "tui" /\ tuiPc = "running") => TicksOutstanding = 1

C15_Witness ==
    /\ prog = "tui"
    /\ tuiPc = "running"
    /\ Sampled
    /\ m.width = 80
    /\ ~m.focused
    /\ Len(tickMsgs) = 1

\* main or the printer goroutine can take a step that needs nothing from
\* outside: the hand-off, the return of wg.Wait(), the printer leaving its
\* loop, or the next step of a running pass
CanStep ==
    \/ mainPc = "send" /\ printerPc = "recv"
    \/ mainPc = "wait" /\ wg = 0
    \/ printerPc = "recv" /\ closed
    \/ printerPc \in Busy

\* C16: once printChan is closed main neither sends on it nor closes it
\* again, and whenever main waits in the send or in wg.Wait() some step of
\* main or of the printer can be taken: the two are never stuck together.
C16_NoSendOnClosedNoDeadlock ==
    prog = "headless" =>
       /\ closed => mainPc \in {"wait", "done"}
       /\ mainPc \in {"send", "wait"} => CanStep

C16_Witness ==
    /\ prog = "headless"
    /\ closed
    /\ mainPc = "wait"
    /\ printerPc \in Busy
    /\ tickerC = TickerCap

\* C17: a message that is not a TickMsg leaves lastUpdate, CpuUsage, MemUsage
\* and the table rows as they were and reads nothing from the provider; a
\* window-size message changes only width and height; a quit key changes no
\* field of the model.
C17_UpdateFrame ==
    [][/\ (TuiKey \/ TuiWindowSize \/ TuiOtherMsg) =>
             /\ m'.lastUpdate = m.lastUpdate
             /\ m'.CpuUsage = m.CpuUsage
             /\ m'.MemUsage = m.MemUsage
             /\ m'.rows = m.rows
             /\ calls' = calls
       /\ TuiWindowSize =>
             [m' EXCEPT !.width = m.width, !.height = m.height] = m
       /\ (TuiKey /\ tuiPc = "running" /\ tuiPc' = "quitting") => m' = m
      ]_vars

C17_Witness ==
    /\ prog = "tui"
    /\ tuiPc = "quitting"
    /\ Sampled
    /\ m.width = 120
    /\ m.cursor = 1

====
